---- MODULE Spec2Model ----
(***************************************************************************)
(* A model of the cache/state layer of the Dota tracking bot:              *)
(*   - cache_manager.py: fetch_data (retry loop with backoff), the shared  *)
(*     request_queue and the rate_limit_check task started by update_cache *)
(*   - track_dota.py: the playtime session tracker track_dota_playtime     *)
(*   - cache_manager.py: load_cache, save_cache, cache_player_data on one  *)
(*     cache file, and the gather of one update_cache cycle                *)
(*   - commands.py: get_last_match_data and the match-detail files         *)
(*   - match_tracker.py: the track_matches_periodically loops              *)
(* Time is counted in whole seconds.  Sleeps are timers that a Tick step   *)
(* counts down; a sleeper whose timer reached 0 runs before time moves on. *)
(***************************************************************************)
EXTENDS Integers, Sequences, FiniteSets, TLC

(***************************************************************************)
(* Bounds of the model.                                                    *)
(***************************************************************************)
\* number of fetch_data invocations the gather of update_cache starts
NumCalls == 1
\* a Retry-After header value the server may send with a 429
RetryAfterSent == 2
\* presence polls of track_dota_playtime that are followed
MaxPolls == 4
\* restarts of the process that are followed
MaxRestarts == 1
\* fields of a cached record
MaxFields == 1
\* get_last_match_data calls that are followed
MaxLookups == 3
\* match-history fetches of one player that are followed
MaxCycles == 3
\* sessions of a playtime file the daily report finds
MaxSessions == 2
\* update_cache invocations that are followed
MaxUpdates == 2
\* stretches of AwayDays without a change that are followed
MaxAway == 1
\* seconds an iteration of send_daily_report takes on top of its sleep
MaxWork == 1

(***************************************************************************)
(* Constants of the program.                                               *)
(***************************************************************************)
\* cache_manager.py:30   RATE_LIMIT = 60
RATE_LIMIT == 60
\* cache_manager.py:59   time.time() - last_request_time > 60
WINDOW == 60
\* cache_manager.py:71   await asyncio.sleep(1)
PACE == 1
\* cache_manager.py:73   retries=3
DEFAULT_RETRIES == 3
\* cache_manager.py:83   response.headers.get("Retry-After", 10)
DEFAULT_RETRY_AFTER == 10
\* cache_manager.py:90   2 ** attempt
BACKOFF_BASE == 2
\* track_dota.py:126     await asyncio.sleep(60)
POLL_SECONDS == 60
\* track_dota.py:132     if now.hour == 8 and now.minute == 0
REPORT_HOUR == 8
\* track_dota.py:134     timedelta(days=30)
RETENTION_DAYS == 30
\* track_dota.py:54      backoff = 5
SUMMARY_BACKOFF == 5
\* track_dota.py:62      backoff = min(backoff * 2, 60)
SUMMARY_BACKOFF_MAX == 60

VARIABLES
    calls,               \* ids of the fetch_data invocations of the run
    fetch,               \* fetch[c]: the state of invocation c (FetchState)
    request_queue,       \* request_queue: the tokens put and not yet taken
    requests_sent,       \* requests_sent
    since_last_request,  \* time.time() - last_request_time, kept up to WINDOW + 1
    limiter,             \* the rate_limit_check task: where it is suspended
    admitted,            \* ghost: the calls whose token rate_limit_check took
    window,              \* ghost: the GETs of the 60 s that follow the first GET
    clock,               \* get_current_time() of the next poll, in poll periods
    active_players,      \* active_players of track_dota_playtime
    playtime,            \* playtime/<steam_id>.json of every player
    tracker,             \* "running", or "crashed" once an exception left the loop
    seen,                \* ghost: what the previous poll of this run reported
    observed,            \* ghost: the players some poll has reported so far
    restarts,            \* ghost: the restarts of the process so far
    disk,                \* one cache file: whether it exists, its content
    saver,               \* the save_cache call in progress, or the last one
    loaded,              \* what the last load_cache call returned
    match_files,         \* cache/matches/<match_id>.json of every match id
    lookups,             \* ghost: the get_last_match_data calls so far
    detail_requests,     \* ghost: the GETs of /matches/{match_id} so far
    answer,              \* ghost: what the last get_last_match_data call did
    fetched,             \* ghost: the match ids fetched and saved completely
    beban,               \* how the last load_all_matches call ended
    update,              \* the update_cache call: where it is, its session
    tasks,               \* how each coroutine of its gather ended, if it did
    loops,               \* the track_matches_periodically task of every player
    corrupt,             \* the players whose playtime file does not parse
    daily,               \* the send_daily_report task and what its last run did
    script,              \* the presence polls of the scenario being replayed, if any
    notify,              \* the check_game_status task: player_status, where it is
    config_players,      \* steam_user of config.json: the players it lists
    tracked_players,     \* cache_manager.tracked_players, read at import
    steam_files,         \* cache/steam/<name>.json: its writes, its content
    overlap,             \* the cache_player_data coroutines of two overlapping cycles
    limiters,            \* the rate_limit_check tasks created so far
    gap,                 \* ghost: time since the last admission, the closest two were
    days,                \* ghost: the times the timestamps have been aged so far
    summary,             \* fetch_player_summaries of the tracker: where it is, its backoff
    nicknames,           \* steam_user of config.json: the nickname of each player
    tracked_players_64,  \* commands.tracked_players_64, read at import
    told,                \* ghost: the steam_user the successful commands add up to
    schedule             \* the loop of send_daily_report: the time of day, the runs today

fetchVars == <<calls, fetch, request_queue, requests_sent,
               since_last_request, limiter, admitted, window>>

trackVars == <<clock, active_players, playtime, tracker, seen, observed,
               restarts>>

storeVars == <<disk, saver, loaded>>

matchVars == <<match_files, lookups, detail_requests, answer, fetched, beban>>

cycleVars == <<update, tasks>>

loopVars == <<loops, steam_files>>

reportVars == <<corrupt, daily, days>>

scenarioVars == <<script>>

notifyVars == <<notify>>

configVars == <<config_players, tracked_players, nicknames,
                tracked_players_64, told>>

overlapVars == <<overlap>>

limitersVars == <<limiters, gap>>

summaryVars == <<summary>>

scheduleVars == <<schedule>>

vars == <<fetchVars, trackVars, storeVars, matchVars, cycleVars, loopVars,
          reportVars, scenarioVars, notifyVars, configVars, overlapVars,
          limitersVars, summaryVars, scheduleVars>>

\* what an action of one layer leaves alone
exceptFetch == <<trackVars, storeVars, matchVars, cycleVars, loopVars,
                 reportVars, scenarioVars, notifyVars, configVars,
                 overlapVars, limitersVars, summaryVars, scheduleVars>>

exceptTrack == <<fetchVars, storeVars, matchVars, cycleVars, loopVars,
                 reportVars, scenarioVars, notifyVars, configVars,
                 overlapVars, limitersVars, summaryVars, scheduleVars>>

exceptStore == <<fetchVars, trackVars, matchVars, cycleVars, loopVars,
                 reportVars, scenarioVars, notifyVars, configVars,
                 overlapVars, limitersVars, summaryVars, scheduleVars>>

exceptMatch == <<fetchVars, trackVars, storeVars, cycleVars, loopVars,
                 reportVars, scenarioVars, notifyVars, configVars,
                 overlapVars, limitersVars, summaryVars, scheduleVars>>

exceptCycle == <<fetchVars, trackVars, storeVars, matchVars, loopVars,
                 reportVars, scenarioVars, notifyVars, configVars,
                 overlapVars, limitersVars, summaryVars, scheduleVars>>

exceptLoops == <<fetchVars, trackVars, storeVars, matchVars, cycleVars,
                 reportVars, scenarioVars, notifyVars, configVars,
                 overlapVars, limitersVars, summaryVars, scheduleVars>>

exceptReport == <<fetchVars, trackVars, storeVars, matchVars, cycleVars,
                  loopVars, scenarioVars, notifyVars, configVars,
                  overlapVars, limitersVars, summaryVars, scheduleVars>>

exceptScenario == <<fetchVars, trackVars, storeVars, matchVars, cycleVars,
                    loopVars, reportVars, notifyVars, configVars,
                    overlapVars, limitersVars, summaryVars, scheduleVars>>

exceptNotify == <<fetchVars, trackVars, storeVars, matchVars, cycleVars,
                  loopVars, reportVars, scenarioVars, configVars,
                  overlapVars, limitersVars, summaryVars, scheduleVars>>

exceptConfig == <<fetchVars, trackVars, storeVars, matchVars, cycleVars,
                  loopVars, reportVars, scenarioVars, notifyVars,
                  overlapVars, limitersVars, summaryVars, scheduleVars>>

exceptOverlap == <<fetchVars, trackVars, storeVars, matchVars, cycleVars,
                   loopVars, reportVars, scenarioVars, notifyVars,
                   configVars, limitersVars, summaryVars, scheduleVars>>

exceptLimiters == <<fetchVars, trackVars, storeVars, matchVars, cycleVars,
                    loopVars, reportVars, scenarioVars, notifyVars,
                    configVars, overlapVars, summaryVars, scheduleVars>>

exceptSummary == <<fetchVars, trackVars, storeVars, matchVars, cycleVars,
                   loopVars, reportVars, scenarioVars, notifyVars,
                   configVars, overlapVars, limitersVars, scheduleVars>>

exceptSchedule == <<fetchVars, trackVars, storeVars, matchVars, cycleVars,
                    loopVars, reportVars, scenarioVars, notifyVars,
                    configVars, overlapVars, limitersVars, summaryVars>>

\* what an action of two layers leaves alone
exceptTrackReport == <<fetchVars, storeVars, matchVars, cycleVars, loopVars,
                       scenarioVars, notifyVars, configVars, overlapVars,
                       limitersVars, summaryVars, scheduleVars>>

exceptStoreOverlap == <<fetchVars, trackVars, matchVars, cycleVars, loopVars,
                        reportVars, scenarioVars, notifyVars, configVars,
                        limitersVars, summaryVars, scheduleVars>>

exceptFetchLimiters == <<trackVars, storeVars, matchVars, cycleVars,
                         loopVars, reportVars, scenarioVars, notifyVars,
                         configVars, overlapVars, summaryVars, scheduleVars>>

(***************************************************************************)
(* Helpers.                                                                *)
(***************************************************************************)
RECURSIVE Pow(_, _)
Pow(b, e) == IF e = 0 THEN 1 ELSE b * Pow(b, e - 1)

Min(a, b) == IF a < b THEN a ELSE b

(***************************************************************************)
(* What one HTTP GET can end with (session.get in fetch_data).             *)
(*   "200"     status 200, val the JSON payload                            *)
(*   "429"     status 429, hdr the Retry-After header (<<>> when absent)   *)
(*   "status"  any other status                                            *)
(*   "neterr"  an aiohttp.ClientError                                      *)
(*   "timeout" the request's total timeout: asyncio.TimeoutError, which is *)
(*             not an aiohttp.ClientError                                  *)
(***************************************************************************)
Payloads == {"p1", "p2"}

Responses ==
    [kind : {"200"}, val : Payloads, hdr : {<<>>}]
    \cup [kind : {"429"}, val : {"-"}, hdr : {<<>>, <<RetryAfterSent>>}]
    \cup [kind : {"status", "neterr", "timeout"}, val : {"-"}, hdr : {<<>>}]

NoResponse == [kind |-> "none", val |-> "-", hdr |-> <<>>]

\* int(response.headers.get("Retry-After", 10))
RetryAfter(hdr) == IF hdr = <<>> THEN DEFAULT_RETRY_AFTER ELSE hdr[1]

\* A fetch_data invocation that has not been called yet.
\*   pc       "idle", "get" (a GET is in flight), "sleep429", "backoff",
\*            "done" (returned), "raised" (left by an exception)
\*   attempt  the loop index of `for attempt in range(retries)`
\*   timer    the seconds left of the current sleep
\*   ret      "pending", the payload returned, "None" or "raised"
\*   ghost: gets the GETs issued so far, nfail the attempts that failed with
\*   another status than 429 or with a ClientError, resp the latest response,
\*   since the seconds slept between that response and the GET that followed
FetchIdle ==
    [pc |-> "idle", attempt |-> 0, timer |-> 0, ret |-> "pending",
     gets |-> 0, nfail |-> 0, resp |-> NoResponse, since |-> 0]

(***************************************************************************)
(* The ghost window: it opens at the first GET and counts the GETs issued  *)
(* less than WINDOW seconds after it.                                      *)
(***************************************************************************)
\* n GETs are issued at this instant
WindowCount(w, n) ==
    IF n = 0 THEN w
    ELSE IF ~w.open
         THEN [open |-> TRUE, age |-> 0, count |-> Min(n, RATE_LIMIT + 1)]
    ELSE IF w.age < WINDOW
         THEN [w EXCEPT !.count = Min(w.count + n, RATE_LIMIT + 1)]
         ELSE w

WindowTick(w) ==
    IF w.open /\ w.age < WINDOW THEN [w EXCEPT !.age = w.age + 1] ELSE w

(***************************************************************************)
(* rate_limit_check, from one suspension to the next.                      *)
(***************************************************************************)
\* lines 68-71: request_queue.get(), requests_sent += 1, sleep(1)
LimiterFromGet(q, sent, since, adm) ==
    IF q = <<>>
    THEN [lim |-> [pc |-> "wait_get", timer |-> 0], q |-> q, sent |-> sent,
          since |-> since, adm |-> adm]
    ELSE [lim |-> [pc |-> "pace", timer |-> PACE], q |-> Tail(q),
          sent |-> sent + 1, since |-> since, adm |-> adm \cup {Head(q)}]

\* lines 57-66: the window reset and the limit test at the top of the loop
LimiterFromTop(q, sent, since, adm) ==
    LET reset  == since > WINDOW
        since1 == IF reset THEN 0 ELSE since
        sent1  == IF reset THEN 0 ELSE sent
    IN  IF sent1 >= RATE_LIMIT
        THEN [lim |-> [pc |-> "limit_sleep", timer |-> WINDOW - since1],
              q |-> q, sent |-> sent1, since |-> since1, adm |-> adm]
        ELSE LimiterFromGet(q, sent1, since1, adm)

LimiterApply(r) ==
    /\ limiter' = r.lim
    /\ request_queue' = r.q
    /\ requests_sent' = r.sent
    /\ since_last_request' = r.since
    /\ admitted' = r.adm

\* a sleep of rate_limit_check is over
LimiterWake ==
    /\ limiter.pc \in {"pace", "limit_sleep"}
    /\ limiter.timer = 0
    /\ LimiterApply(IF limiter.pc = "pace"
                    THEN LimiterFromTop(request_queue, requests_sent,
                                        since_last_request, admitted)
                    ELSE LimiterFromGet(request_queue, requests_sent,
                                        since_last_request, admitted))
    /\ UNCHANGED <<calls, fetch, window>>
    /\ UNCHANGED exceptFetch

\* request_queue.get() returns: a token has been put
LimiterGet ==
    /\ limiter.pc = "wait_get"
    /\ request_queue # <<>>
    /\ LimiterApply(LimiterFromGet(request_queue, requests_sent,
                                   since_last_request, admitted))
    /\ UNCHANGED <<calls, fetch, window>>
    /\ UNCHANGED exceptFetch

(***************************************************************************)
(* fetch_data, from one suspension to the next.                            *)
(***************************************************************************)
\* line 79: session.get(url) of the attempt f.attempt is issued
IssueGet(f) ==
    [f EXCEPT !.pc = "get", !.timer = 0, !.gets = f.gets + 1]

\* lines 75-79: fetch_data puts its token (the constant 1, labelled here
\* with the id of the call), enters the loop and issues the first GET.
\* Nothing suspends it before the GET: the queue is unbounded.
FetchStart(f) == IssueGet(f)

\* update_cache, lines 138-148: asyncio.create_task(rate_limit_check()), then
\* the gather.  The event loop runs the new tasks in the order of their
\* creation: rate_limit_check up to its first suspension, then every fetch
\* of the gather up to its first GET.
UpdateCache ==
    /\ limiter.pc = "off"
    /\ LET r == LimiterFromTop(request_queue, requests_sent,
                               since_last_request, admitted)
           n == Cardinality(calls)
       IN  /\ limiter' = r.lim
           /\ requests_sent' = r.sent
           /\ since_last_request' = r.since
           /\ admitted' = r.adm
           /\ request_queue' = r.q \o [c \in 1 .. n |-> c]
           /\ fetch' = [c \in calls |-> FetchStart(fetch[c])]
           /\ window' = WindowCount(window, n)
    /\ UNCHANGED calls
    /\ UNCHANGED exceptFetch

\* line 90: the exponent of the backoff sleep is the loop index
BackoffSeconds(f) == Pow(BACKOFF_BASE, f.attempt)

\* lines 79-90: the response of the GET in flight, up to the next sleep
OnResponse(f, r) ==
    LET g == [f EXCEPT !.resp = r, !.since = 0]
    IN  CASE r.kind = "200" ->
               [g EXCEPT !.pc = "done", !.ret = r.val]
          [] r.kind = "429" ->
               [g EXCEPT !.pc = "sleep429", !.timer = RetryAfter(r.hdr)]
          [] r.kind \in {"status", "neterr"} ->
               [g EXCEPT !.pc = "backoff", !.timer = BackoffSeconds(f),
                         !.nfail = f.nfail + 1]
          [] OTHER ->
               [g EXCEPT !.pc = "raised", !.ret = "raised"]

FetchRespond(c, r) ==
    /\ fetch[c].pc = "get"
    /\ fetch' = [fetch EXCEPT ![c] = OnResponse(fetch[c], r)]
    /\ UNCHANGED <<calls, request_queue, requests_sent, since_last_request,
                   limiter, admitted, window>>
    /\ UNCHANGED exceptFetch

\* line 90, reached from line 85: the 429 branch falls through to the backoff
AfterThrottle(f) ==
    [f EXCEPT !.pc = "backoff", !.timer = BackoffSeconds(f)]

\* lines 85, 90: sleep(retry_after) is over, sleep(2 ** attempt) follows
FetchAfterThrottle(c) ==
    /\ fetch[c].pc = "sleep429"
    /\ fetch[c].timer = 0
    /\ fetch' = [fetch EXCEPT ![c] = AfterThrottle(fetch[c])]
    /\ UNCHANGED <<calls, request_queue, requests_sent, since_last_request,
                   limiter, admitted, window>>
    /\ UNCHANGED exceptFetch

MoreAttempts_OneTooMany(f) == f.attempt < DEFAULT_RETRIES

\* line 77: `for attempt in range(retries)` has another round
MoreAttempts(f) == f.attempt + 1 < DEFAULT_RETRIES

\* lines 77, 91: the next round of the loop, or `return None` after the last
NextAttempt(f) ==
    IF MoreAttempts(f)
    THEN [IssueGet(f) EXCEPT !.attempt = f.attempt + 1]
    ELSE [f EXCEPT !.pc = "done", !.ret = "None"]

\* line 90: sleep(2 ** attempt) is over
FetchAfterBackoff(c) ==
    /\ fetch[c].pc = "backoff"
    /\ fetch[c].timer = 0
    /\ fetch' = [fetch EXCEPT ![c] = NextAttempt(fetch[c])]
    /\ window' = WindowCount(window, IF fetch'[c].pc = "get" THEN 1 ELSE 0)
    /\ UNCHANGED <<calls, request_queue, requests_sent, since_last_request,
                   limiter, admitted>>
    /\ UNCHANGED exceptFetch

(***************************************************************************)
(* One second passes.                                                      *)
(***************************************************************************)
Sleeping(f) == f.pc \in {"sleep429", "backoff"}

TickFetch(f) ==
    IF Sleeping(f)
    THEN [f EXCEPT !.timer = f.timer - 1, !.since = f.since + 1]
    ELSE f

Tick ==
    /\ limiter.pc # "off"
    /\ \A c \in calls : Sleeping(fetch[c]) => fetch[c].timer > 0
    /\ limiter.pc \in {"pace", "limit_sleep"} => limiter.timer > 0
    /\ ~(limiter.pc = "wait_get" /\ request_queue # <<>>)
    /\ fetch' = [c \in calls |-> TickFetch(fetch[c])]
    /\ limiter' = IF limiter.pc \in {"pace", "limit_sleep"}
                  THEN [limiter EXCEPT !.timer = limiter.timer - 1]
                  ELSE limiter
    /\ since_last_request' = Min(since_last_request + 1, WINDOW + 1)
    /\ window' = WindowTick(window)
    /\ UNCHANGED <<calls, request_queue, requests_sent, admitted>>
    /\ UNCHANGED exceptFetch

(***************************************************************************)
(* The fetch layer.                                                        *)
(***************************************************************************)
\* the module was imported just now, or more than WINDOW seconds ago
FetchInitFor(n) ==
    /\ calls = 1 .. n
    /\ fetch = [c \in calls |-> FetchIdle]
    /\ request_queue = <<>>
    /\ requests_sent = 0
    /\ since_last_request \in {0, WINDOW + 1}
    /\ limiter = [pc |-> "off", timer |-> 0]
    /\ admitted = {}
    /\ window = [open |-> FALSE, age |-> 0, count |-> 0]

FetchInit == FetchInitFor(NumCalls)

FetchNext ==
    \/ UpdateCache
    \/ LimiterWake
    \/ LimiterGet
    \/ \E c \in calls : \E r \in Responses : FetchRespond(c, r)
    \/ \E c \in calls : FetchAfterThrottle(c)
    \/ \E c \in calls : FetchAfterBackoff(c)
    \/ Tick

\* A burst: RATE_LIMIT + 1 fetches are requested by one update_cache, and a
\* healthy server answers them with status 200 in the order of the requests.
BurstInit == FetchInitFor(RATE_LIMIT + 1)

BurstRespond(c) ==
    /\ \A d \in calls : d < c => fetch[d].pc = "done"
    /\ FetchRespond(c, [kind |-> "200", val |-> "p1", hdr |-> <<>>])

BurstNext ==
    \/ UpdateCache
    \/ LimiterWake
    \/ LimiterGet
    \/ \E c \in calls : BurstRespond(c)
    \/ Tick

(***************************************************************************)
(* track_dota.py: the playtime session tracker.                            *)
(* Time is counted in poll periods of POLL_SECONDS seconds.                *)
(***************************************************************************)
\* STEAM_USERS, in the order the summaries are processed
PlayerOrder == <<"s1", "s2">>

Players == {PlayerOrder[i] : i \in 1 .. Len(PlayerOrder)}

\* player.get("gameextrainfo", None): the target game, another game, no game
Games == {"Dota 2", "other", "none"}

\* what one poll reports for a player: a game, or "absent" for a player that
\* is not in the list fetch_player_summaries returned
Reports == Games \cup {"absent"}

\* playtime/<steam_id>.json does not exist
NoFile == [exists |-> FALSE, sessions |-> <<>>, total |-> 0]

\* lines 32-37, 91-94
load_playtime_data(file) ==
    IF file.exists
    THEN [sessions |-> file.sessions, total |-> file.total]
    ELSE [sessions |-> <<>>, total |-> 0]

\* lines 40-43
save_playtime_data(data) ==
    [exists |-> TRUE, sessions |-> data.sessions, total |-> data.total]

NotPlaying == [on |-> FALSE, start |-> 0]

\* line 99: {"start": now.isoformat()}
OpenSession(now) ==
    [start |-> now, closed |-> FALSE, end |-> 0, duration |-> <<>>]

\* lines 106-113: f"{hours}h {minutes}m {seconds}s"
DurationFormatted(secs) ==
    <<secs \div 3600, (secs % 3600) \div 60, secs % 60>>

\* line 114: round(play_duration_seconds / 3600, 2), in hundredths of an hour
PlayDurationHours(secs) == (secs + 18) \div 36

CloseSession_EndIsStart(s, now, secs) ==
    [s EXCEPT !.closed = TRUE, !.end = s.start,
              !.duration = DurationFormatted(secs)]

\* lines 116-118
CloseSession(s, now, secs) ==
    [s EXCEPT !.closed = TRUE, !.end = now,
              !.duration = DurationFormatted(secs)]

ShouldStart_Always(act) == TRUE

ShouldStart_Never(act) == FALSE

\* line 97: `if steam_id not in active_players`
ShouldStart(act) == ~act.on

\* lines 86-124: the body of the loop over the players of one poll.
\* st = [active, files, crashed]; a crashed loop processes nothing more.
TrackPlayer(st, p, game, now) ==
    LET data == load_playtime_data(st.files[p])
        act  == st.active[p]
    IN  IF st.crashed \/ game = "absent" THEN st
        ELSE IF p \in corrupt
        THEN \* line 89: json.load raises (line 36), nothing catches it
             [st EXCEPT !.crashed = TRUE]
        ELSE IF game = "Dota 2"
        THEN IF ShouldStart(act)
             THEN [st EXCEPT
                     !.active[p] = [on |-> TRUE, start |-> now],
                     !.files[p] = save_playtime_data(
                         [data EXCEPT !.sessions =
                             Append(data.sessions, OpenSession(now))])]
             ELSE st
        ELSE IF act.on
        THEN LET secs == (now - act.start) * POLL_SECONDS
                 n    == Len(data.sessions)
             IN  IF n = 0
                 THEN \* line 116: sessions[-1] of an empty list, IndexError
                      [st EXCEPT !.active[p] = NotPlaying, !.crashed = TRUE]
                 ELSE [st EXCEPT
                         !.active[p] = NotPlaying,
                         !.files[p] = save_playtime_data(
                             [sessions |-> [data.sessions EXCEPT ![n] =
                                  CloseSession(data.sessions[n], now, secs)],
                              total |-> data.total + PlayDurationHours(secs)])]
        ELSE st

RECURSIVE TrackPlayers(_, _, _, _)
TrackPlayers(st, report, now, i) ==
    IF i > Len(PlayerOrder) THEN st
    ELSE TrackPlayers(TrackPlayer(st, PlayerOrder[i], report[PlayerOrder[i]], now),
                      report, now, i + 1)

Unseen == [game |-> "unseen", at |-> 0]

\* lines 77-126: one round of the loop of track_dota_playtime.  A report
\* without any player is the empty list of a failed fetch (lines 81-83).
PollOnce(report) ==
    /\ tracker = "running"
    /\ LET st == TrackPlayers([active |-> active_players, files |-> playtime,
                               crashed |-> FALSE], report, clock, 1)
       IN  /\ active_players' = st.active
           /\ playtime' = st.files
           /\ tracker' = IF st.crashed THEN "crashed" ELSE "running"
           /\ seen' = [p \in Players |->
                         IF report[p] = "absent" \/ st.crashed THEN seen[p]
                         ELSE [game |-> report[p], at |-> clock]]
           /\ observed' = observed \cup {p \in Players : report[p] # "absent"}
    /\ clock' = clock + 1
    /\ UNCHANGED restarts
    /\ UNCHANGED exceptTrack

\* the polls that are followed
Poll(report) ==
    /\ clock <= MaxPolls
    /\ PollOnce(report)

\* the process is restarted: line 75 runs again, the files stay
Restart ==
    /\ restarts < MaxRestarts
    /\ restarts' = restarts + 1
    /\ active_players' = [p \in Players |-> NotPlaying]
    /\ tracker' = "running"
    /\ seen' = [p \in Players |-> Unseen]
    /\ UNCHANGED <<clock, playtime, observed>>
    /\ UNCHANGED exceptTrack

TrackInit ==
    /\ clock = 1
    /\ active_players = [p \in Players |-> NotPlaying]
    /\ playtime = [p \in Players |-> NoFile]
    /\ tracker = "running"
    /\ seen = [p \in Players |-> Unseen]
    /\ observed = {}
    /\ restarts = 0

TrackNext ==
    \/ \E report \in [Players -> Reports] : Poll(report)
    \/ Restart

(***************************************************************************)
(* track_dota.py: fetch_player_summaries, called by every round of         *)
(* track_dota_playtime.                                                    *)
(***************************************************************************)
\* the list [] of lines 66 and 71: no player is reported
NoPlayers == [p \in Players |-> "absent"]

\* how the GET of line 58 can end
SummaryOutcomes == {"200", "429", "status", "error"}

\* lines 54-58, called at line 78 by the round `now`: the first GET
SummaryCall(now) ==
    [pc |-> "get", backoff |-> SUMMARY_BACKOFF, at |-> now, result |-> NoPlayers]

\* lines 58-71: the GET ends.  200: the players of the body are returned;
\* 429: sleep for `backoff`; another status or an exception: [] is returned
SummariesRespond(kind, rep) ==
    /\ summary.pc = "get"
    /\ summary' = CASE kind = "429" -> [summary EXCEPT !.pc = "sleep429"]
                    [] kind = "200" -> [summary EXCEPT !.pc = "returned",
                                                       !.result = rep]
                    [] OTHER -> [summary EXCEPT !.pc = "returned",
                                                !.result = NoPlayers]
    /\ UNCHANGED exceptSummary

\* lines 61-63: the sleep is over, backoff doubles up to the maximum, and
\* `continue` issues the next GET
SummariesRetry ==
    /\ summary.pc = "sleep429"
    /\ summary' = [summary EXCEPT
                     !.pc = "get",
                     !.backoff = Min(summary.backoff * 2, SUMMARY_BACKOFF_MAX)]
    /\ UNCHANGED exceptSummary

\* lines 78-126: fetch_player_summaries returned, the round goes on with
\* what it returned
FetchedPoll ==
    /\ summary.pc = "returned"
    /\ summary.at = clock
    /\ Poll(summary.result)

\* lines 126, 78: the sleep of the round is over, the next round calls
\* fetch_player_summaries
SummariesCall ==
    /\ summary.pc = "returned"
    /\ summary.at < clock
    /\ summary' = SummaryCall(clock)
    /\ UNCHANGED exceptSummary

SummaryInit == summary = SummaryCall(1)

SummariesNext ==
    \/ \E kind \in SummaryOutcomes : \E rep \in [Players -> Reports] :
         SummariesRespond(kind, rep)
    \/ SummariesRetry
    \/ FetchedPoll
    \/ SummariesCall

(***************************************************************************)
(* track_dota.py: a fixed sequence of presence polls of one player.        *)
(***************************************************************************)
\* the player the scenario is about
ScenarioPlayer == PlayerOrder[1]

\* an activity: a game the player is in
Activities == Games \ {"none"}

\* the polls [absent, X, X, Y, absent] with X and Y two different activities;
\* "absent" is a poll without gameextrainfo
Scripts ==
    {<<"none", x, x, y, "none">> : x \in Activities, y \in Activities} \
    {<<"none", x, x, x, "none">> : x \in Activities}

\* lines 77-126: the next poll, reporting what the script says
ScriptedPoll ==
    /\ clock <= Len(script)
    /\ \E rep \in [Players -> Reports] :
         /\ rep[ScenarioPlayer] = script[clock]
         /\ PollOnce(rep)

ScenarioIdle == script = <<>>

ScenarioInit == script \in Scripts

ScenarioNext == ScriptedPoll

(***************************************************************************)
(* track_dota.py: send_daily_report.  The body of one run (lines 133-177)  *)
(* has no await before the message is sent, so it is one step.             *)
(***************************************************************************)
\* 24 * 3600 seconds
PollsPerDay == 86400 \div POLL_SECONDS

\* line 134: now - timedelta(days=30)
Cutoff(now) == now - RETENTION_DAYS * PollsPerDay

Kept_None(sessions, now) == <<>>

\* line 142: datetime.fromisoformat(s["start"]) >= cutoff_date
Kept(sessions, now) == SelectSeq(sessions, LAMBDA s : s.start >= Cutoff(now))

RECURSIVE ClosedSeconds(_, _)
\* lines 146-149: the sum of end - start over the sessions that have an end
ClosedSeconds(sessions, i) ==
    IF i > Len(sessions) THEN 0
    ELSE (IF sessions[i].closed
          THEN (sessions[i].end - sessions[i].start) * POLL_SECONDS ELSE 0)
         + ClosedSeconds(sessions, i + 1)

\* the multiples s of 60 below four hours for which the double
\* (s / 3600) * 3600 is smaller than s
ProductBelow == {3900, 7380, 7800, 7860}

\* lines 151-152: the total as "{h}h {m}m {s}s", computed from the hours as
\* a double: int(h), int((h * 60) % 60), int((h * 3600) % 60)
ReportFormatted(secs) ==
    <<secs \div 3600, (secs \div 60) % 60,
      IF secs \in ProductBelow THEN 59 ELSE secs % 60>>

NoReport == [pc |-> "idle", raised |-> "-", shown |-> [p \in Players |-> <<>>],
             lines |-> {}, sent |-> FALSE]

\* lines 137-170 for one player.  st = [files, shown, lines, raised]
ReportPlayer(st, p, now) ==
    IF st.raised # "-" THEN st
    ELSE IF p \in corrupt
    THEN \* line 138: json.load raises, nothing catches it
         [st EXCEPT !.raised = "load"]
    ELSE LET data == load_playtime_data(st.files[p])
             kept == Kept(data.sessions, now)
             secs == ClosedSeconds(kept, 1)
         IN  [st EXCEPT
                !.shown[p] = ReportFormatted(secs),
                !.lines = IF secs > 0 THEN st.lines \cup {p} ELSE st.lines,
                !.files[p] = IF kept = <<>> THEN NoFile ELSE st.files[p]]

RECURSIVE ReportPlayers(_, _, _)
ReportPlayers(st, now, i) ==
    IF i > Len(PlayerOrder) THEN st
    ELSE ReportPlayers(ReportPlayer(st, PlayerOrder[i], now), now, i + 1)

\* lines 131-177: one run of the report at 08:00; delivered: whether
\* notifier.send_message returns
DailyReport(delivered) ==
    /\ daily.pc = "idle"
    /\ LET st == ReportPlayers([files |-> playtime, shown |-> NoReport.shown,
                                lines |-> {}, raised |-> "-"], clock, 1)
           sends == st.raised = "-" /\ st.lines # {}
       IN  /\ playtime' = st.files
           /\ daily' = [pc |-> IF st.raised # "-" \/ (sends /\ ~delivered)
                                THEN "raised" ELSE "done",
                         raised |-> IF st.raised # "-" THEN st.raised
                                    ELSE IF sends /\ ~delivered THEN "send"
                                    ELSE "-",
                         shown |-> st.shown, lines |-> st.lines,
                         sent |-> sends]
    /\ UNCHANGED <<clock, active_players, tracker, seen, observed, restarts>>
    /\ UNCHANGED <<corrupt, days>>
    /\ UNCHANGED exceptTrackReport

\* the session starts of the files the report finds: a day ago, and a day
\* more than the retention window ago
ReportStarts == {1 - PollsPerDay, 1 - (RETENTION_DAYS + 1) * PollsPerDay}

\* the session lengths of those files, in poll periods
ReportLengths == {1, 65}

\* the sessions track_dota_playtime can have written
ReportSessions ==
    {OpenSession(t) : t \in ReportStarts} \cup
    {CloseSession(OpenSession(t), t + n, n * POLL_SECONDS) :
       t \in ReportStarts, n \in ReportLengths}

RECURSIVE StoredTotal(_, _)
\* the total lines 114-119 have accumulated for these sessions
StoredTotal(sessions, i) ==
    IF i > Len(sessions) THEN 0
    ELSE (IF sessions[i].closed
          THEN PlayDurationHours((sessions[i].end - sessions[i].start)
                                 * POLL_SECONDS)
          ELSE 0) + StoredTotal(sessions, i + 1)

\* the playtime files the report can find: none, or sessions in the order
\* of their starts with the total accumulated for them
ReportFiles ==
    {NoFile} \cup
    {save_playtime_data([sessions |-> q, total |-> StoredTotal(q, 1)]) :
       q \in {r \in UNION {[1 .. m -> ReportSessions] : m \in 0 .. MaxSessions} :
                \A i \in 1 .. Len(r) - 1 : r[i].start <= r[i + 1].start}}

ReportIdle ==
    /\ corrupt = {}
    /\ daily = NoReport
    /\ days = 0

ReportInit ==
    /\ playtime \in [Players -> ReportFiles]
    /\ corrupt \in SUBSET {p \in Players : playtime[p].exists}
    /\ daily = NoReport
    /\ days = 0

ReportNext == \E delivered \in BOOLEAN : DailyReport(delivered)

(***************************************************************************)
(* track_dota.py: track_dota_playtime and send_daily_report, the two       *)
(* tasks of start_track_dota (line 183), over more than the retention      *)
(* window.  Each step runs one task from one await to its next.            *)
(***************************************************************************)
\* the days a stretch without any change of the reports lasts
AwayDays == RETENTION_DAYS + 1

\* the polls of the stretches so far
AwayPolls == days * AwayDays * PollsPerDay

\* lines 77-126, AwayDays long: every round gets the report of the round
\* before it, so no branch of lines 96-124 does anything; the next 08:00
\* is still to come
DaysPass ==
    /\ days < MaxAway
    /\ tracker = "running"
    /\ days' = days + 1
    /\ clock' = clock + AwayDays * PollsPerDay
    /\ seen' = [p \in Players |->
                  IF seen[p] = Unseen THEN Unseen
                  ELSE [seen[p] EXCEPT !.at = clock' - 1]]
    /\ daily' = IF daily.pc = "done" THEN NoReport ELSE daily
    /\ UNCHANGED <<active_players, playtime, tracker, observed, restarts>>
    /\ UNCHANGED corrupt
    /\ UNCHANGED exceptTrackReport

\* lines 77-126: a round of the polls that are followed
LaterPoll(report) ==
    /\ clock - AwayPolls <= MaxPolls
    /\ PollOnce(report)

DaysNext ==
    \/ \E report \in [Players -> Reports] : LaterPoll(report)
    \/ DaysPass
    \/ \E delivered \in BOOLEAN : DailyReport(delivered)

(***************************************************************************)
(* notify_game.py: check_game_status.                                      *)
(***************************************************************************)
NotifyStart == [pc |-> "running", polls |-> 0,
                player_status |-> [p \in Players |-> "unset"]]

\* lines 62-88 for one player.  st = [status, crashed]
NotifyPlayer(st, p, game, delivered) ==
    IF st.crashed \/ game = "absent" THEN st
    ELSE IF st.status[p] = "unset"
    THEN \* lines 71-73
         [st EXCEPT !.status[p] = game]
    ELSE IF game # st.status[p] /\ ~delivered
    THEN \* lines 82, 85: send_message raises, nothing catches it
         [st EXCEPT !.crashed = TRUE]
    ELSE [st EXCEPT !.status[p] = game]

RECURSIVE NotifyPlayers(_, _, _, _)
NotifyPlayers(st, rep, delivered, i) ==
    IF i > Len(PlayerOrder) THEN st
    ELSE NotifyPlayers(NotifyPlayer(st, PlayerOrder[i], rep[PlayerOrder[i]],
                                    delivered),
                       rep, delivered, i + 1)

\* lines 55-91: one round of the loop of check_game_status
NotifyPoll(rep, delivered) ==
    /\ notify.pc = "running"
    /\ notify.polls < MaxPolls
    /\ LET st == NotifyPlayers([status |-> notify.player_status,
                                crashed |-> FALSE], rep, delivered, 1)
       IN  notify' = [pc |-> IF st.crashed THEN "crashed" ELSE "running",
                      polls |-> notify.polls + 1,
                      player_status |-> st.status]
    /\ UNCHANGED exceptNotify

NotifyInit == notify = NotifyStart

NotifyNext ==
    \E rep \in [Players -> Reports] : \E delivered \in BOOLEAN :
        NotifyPoll(rep, delivered)

(***************************************************************************)
(* cache_manager.py: the cache files.  load_cache, save_cache and the      *)
(* merge of cache_player_data, on one cache file.                          *)
(* A JSON value is a record [t, v]: t is the kind and v the content.  A    *)
(* dict is the sequence of its <<key, value>> pairs in insertion order.    *)
(* A file content is the sequence of the JSON tokens written to it.        *)
(***************************************************************************)
Num(n) == [t |-> "num", v |-> n]

Str(s) == [t |-> "str", v |-> s]

\* JSON null, Python None
Null == [t |-> "null", v |-> 0]

List(items) == [t |-> "list", v |-> items]

Obj(pairs) == [t |-> "obj", v |-> pairs]

\* the keys of the player record: the fields of /players/{id}, and the
\* "win_loss" key of line 129
ProfileKeys == {"profile", "rank_tier"}

Keys == ProfileKeys \cup {"win_loss"}

\* the body of /players/{id}/wl
WinLoss == Obj(<<<<"win", Num(2)>>>>)

\* the field values: a number, a non-ASCII string, a list that nests
Values == {Num(1), Str("é"), List(<<Null, WinLoss>>)}

KeysOf(d) == {d.v[i][1] : i \in 1 .. Len(d.v)}

\* the dicts of at most n fields with keys from ks
DictsOver(ks, n) ==
    {Obj(s) : s \in {q \in UNION {[1 .. m -> ks \X Values] : m \in 0 .. n} :
                       \A i, j \in 1 .. Len(q) : i # j => q[i][1] # q[j][1]}}

Records == DictsOver(Keys, MaxFields)

\* d.get(k): whether the key is there, and its value
Get(d, k) ==
    IF k \in KeysOf(d)
    THEN [has |-> TRUE, val |-> d.v[CHOOSE i \in 1 .. Len(d.v) : d.v[i][1] = k][2]]
    ELSE [has |-> FALSE, val |-> Null]

\* d[k] = x: an existing key keeps its place, a new key goes last
DictSet(d, k, x) ==
    IF k \in KeysOf(d)
    THEN Obj([i \in 1 .. Len(d.v) |-> IF d.v[i][1] = k THEN <<k, x>> ELSE d.v[i]])
    ELSE Obj(Append(d.v, <<k, x>>))

\* bool(x) of Python
Truthy(x) ==
    CASE x.t = "null" -> FALSE
      [] x.t = "num" -> x.v # 0
      [] x.t = "str" -> x.v # ""
      [] OTHER -> Len(x.v) > 0

\* json.dump(..., indent=4): ensure_ascii escapes a non-ASCII character
StrToken(s) ==
    CASE s = "é" -> "\"\\u00e9\""
      [] OTHER -> "\"" \o s \o "\""

Strings == Keys \cup {"win", "é", "match_id", "version"}

StrTokens == {StrToken(s) : s \in Strings}

Numbers == 0 .. 9

NumTokens == {ToString(n) : n \in Numbers}

\* the decoder's reading of a string token
Unescape_Raw(tk) == tk

Unescape(tk) == CHOOSE s \in Strings : StrToken(s) = tk

RECURSIVE Dump(_)
RECURSIVE DumpItems(_, _)
RECURSIVE DumpMembers(_, _)
\* the chunks json.dump writes for a value; "ws" is a newline and its indent
Dump(x) ==
    CASE x.t = "null" -> <<"null">>
      [] x.t = "num" -> <<ToString(x.v)>>
      [] x.t = "str" -> <<StrToken(x.v)>>
      [] x.t = "list" -> IF x.v = <<>> THEN <<"[", "]">>
                         ELSE <<"[", "ws">> \o DumpItems(x.v, 1) \o <<"ws", "]">>
      [] OTHER -> IF x.v = <<>> THEN <<"{", "}">>
                  ELSE <<"{", "ws">> \o DumpMembers(x.v, 1) \o <<"ws", "}">>

DumpItems(items, i) ==
    IF i = Len(items) THEN Dump(items[i])
    ELSE Dump(items[i]) \o <<",", "ws">> \o DumpItems(items, i + 1)

DumpMembers(pairs, i) ==
    LET member == <<StrToken(pairs[i][1]), ":">> \o Dump(pairs[i][2])
    IN  IF i = Len(pairs) THEN member
        ELSE member \o <<",", "ws">> \o DumpMembers(pairs, i + 1)

RECURSIVE SkipWs(_, _)
SkipWs(toks, i) ==
    IF i <= Len(toks) /\ toks[i] = "ws" THEN SkipWs(toks, i + 1) ELSE i

ParseFail == [ok |-> FALSE, val |-> Null, next |-> 0]

Parsed(x, n) == [ok |-> TRUE, val |-> x, next |-> n]

RECURSIVE ParseValue(_, _)
RECURSIVE ParseItems(_, _, _)
RECURSIVE ParseMembers(_, _, _)
\* the JSON decoder, from token i on
ParseValue(toks, i0) ==
    LET i == SkipWs(toks, i0)
    IN  IF i > Len(toks) THEN ParseFail
        ELSE CASE toks[i] = "null" -> Parsed(Null, i + 1)
               [] toks[i] \in NumTokens ->
                      Parsed(Num(CHOOSE n \in Numbers : ToString(n) = toks[i]), i + 1)
               [] toks[i] \in StrTokens -> Parsed(Str(Unescape(toks[i])), i + 1)
               [] toks[i] = "[" ->
                      LET j == SkipWs(toks, i + 1)
                      IN  IF j <= Len(toks) /\ toks[j] = "]"
                          THEN Parsed(List(<<>>), j + 1)
                          ELSE ParseItems(toks, j, <<>>)
               [] toks[i] = "{" ->
                      LET j == SkipWs(toks, i + 1)
                      IN  IF j <= Len(toks) /\ toks[j] = "}"
                          THEN Parsed(Obj(<<>>), j + 1)
                          ELSE ParseMembers(toks, j, Obj(<<>>))
               [] OTHER -> ParseFail

ParseItems(toks, i, acc) ==
    LET r == ParseValue(toks, i)
        j == SkipWs(toks, r.next)
    IN  IF ~r.ok \/ j > Len(toks) THEN ParseFail
        ELSE IF toks[j] = "," THEN ParseItems(toks, j + 1, Append(acc, r.val))
        ELSE IF toks[j] = "]" THEN Parsed(List(Append(acc, r.val)), j + 1)
        ELSE ParseFail

ParseMembers(toks, i0, acc) ==
    LET i == SkipWs(toks, i0)
        c == SkipWs(toks, i + 1)
    IN  IF i > Len(toks) \/ c > Len(toks) THEN ParseFail
        ELSE IF toks[i] \notin StrTokens \/ toks[c] # ":" THEN ParseFail
        ELSE LET r == ParseValue(toks, c + 1)
                 j == SkipWs(toks, r.next)
                 d == DictSet(acc, Unescape(toks[i]), r.val)
             IN  IF ~r.ok \/ j > Len(toks) THEN ParseFail
                 ELSE IF toks[j] = "," THEN ParseMembers(toks, j + 1, d)
                 ELSE IF toks[j] = "}" THEN Parsed(d, j + 1)
                 ELSE ParseFail

\* a byte that is not valid UTF-8
BadByte == "\\xff"

\* json.load(f): f.read() decodes the whole text, then the decoder runs
json_load(toks) ==
    IF \E i \in 1 .. Len(toks) : toks[i] = BadByte
    THEN [err |-> "UnicodeDecodeError", val |-> Null]
    ELSE LET r == ParseValue(toks, 1)
         IN  IF r.ok /\ SkipWs(toks, r.next) > Len(toks)
             THEN [err |-> "none", val |-> r.val]
             ELSE [err |-> "JSONDecodeError", val |-> Null]

NoCacheFile == [exists |-> FALSE, text |-> <<>>]

FileOf(toks) == [exists |-> TRUE, text |-> toks]

\* lines 35-43; opens: whether open(file_path, "r") succeeds
load_cache(file, opens) ==
    IF ~file.exists THEN [raised |-> FALSE, val |-> Obj(<<>>)]
    ELSE IF ~opens THEN [raised |-> FALSE, val |-> Obj(<<>>)]
    ELSE LET r == json_load(file.text)
         IN  CASE r.err = "none" -> [raised |-> FALSE, val |-> r.val]
               [] r.err = "JSONDecodeError" -> [raised |-> FALSE, val |-> Obj(<<>>)]
               [] OTHER -> [raised |-> TRUE, val |-> Null]

NotLoaded == [set |-> FALSE, opened |-> FALSE, raised |-> FALSE, val |-> Null]

NoSource == [kind |-> "plain", prev |-> Null, profile |-> Null, wl |-> Null]

SaverIdle == [pc |-> "idle", data |-> Null, old |-> NoCacheFile,
              failed |-> FALSE, src |-> NoSource]

\* a load_cache call by the running process, or by the next one after a crash
LoadCache(opens) ==
    /\ saver.pc \in {"idle", "returned", "crashed"}
    /\ LET r == load_cache(disk, opens)
       IN  loaded' = [set |-> TRUE, opened |-> opens, raised |-> r.raised,
                      val |-> r.val]
    /\ UNCHANGED <<disk, saver>>
    /\ UNCHANGED exceptStore

\* lines 47-48: open(file_path, "w") truncates the file, or fails (line 50)
SaveOpen(data, src, opens) ==
    /\ saver' = [pc |-> IF opens THEN "writing" ELSE "returned", data |-> data,
                 old |-> disk, failed |-> ~opens, src |-> src]
    /\ disk' = IF opens THEN FileOf(<<>>) ELSE disk
    /\ loaded' = NotLoaded

\* save_cache(file_path, data) is called
SaveCache(data, opens) ==
    /\ saver.pc = "idle"
    /\ SaveOpen(data, NoSource, opens)
    /\ UNCHANGED exceptStore

\* line 49: json.dump writes the next chunk, or the write fails (line 50)
SaveWrite(fails) ==
    /\ saver.pc = "writing"
    /\ Len(disk.text) < Len(Dump(saver.data))
    /\ IF fails
       THEN /\ saver' = [saver EXCEPT !.pc = "returned", !.failed = TRUE]
            /\ UNCHANGED disk
       ELSE /\ disk' = FileOf(Append(disk.text,
                                     Dump(saver.data)[Len(disk.text) + 1]))
            /\ UNCHANGED saver
    /\ UNCHANGED loaded
    /\ UNCHANGED exceptStore

\* lines 48-49: the dump is complete, the file is closed
SaveClose ==
    /\ saver.pc = "writing"
    /\ Len(disk.text) = Len(Dump(saver.data))
    /\ saver' = [saver EXCEPT !.pc = "returned"]
    /\ UNCHANGED <<disk, loaded>>
    /\ UNCHANGED exceptStore

\* the process dies inside save_cache
SaveCrash ==
    /\ saver.pc = "writing"
    /\ saver' = [saver EXCEPT !.pc = "crashed"]
    /\ UNCHANGED <<disk, loaded>>
    /\ UNCHANGED exceptStore

\* line 127: player_data.update(profile_data)
DictUpdate_Replace(d, u) == u

RECURSIVE DictUpdateFrom(_, _, _)
DictUpdateFrom(d, u, i) ==
    IF i > Len(u.v) THEN d
    ELSE DictUpdateFrom(DictSet(d, u.v[i][1], u.v[i][2]), u, i + 1)

DictUpdate(d, u) == DictUpdateFrom(d, u, 1)

\* lines 126-129
MergePlayer(player_data, profile_data, wl_data) ==
    LET p == IF Truthy(profile_data) THEN DictUpdate(player_data, profile_data)
             ELSE player_data
    IN  IF Truthy(wl_data) THEN DictSet(p, "win_loss", wl_data) ELSE p

\* what fetch_data returns for the profile: None, or the body
ProfileResults == {Null} \cup DictsOver(ProfileKeys, MaxFields)

\* what fetch_data returns for /wl: None, or the body
WinLossResults == {Null, Obj(<<>>), WinLoss}

\* lines 114-132: load, merge what the two fetches returned, save
CachePlayerData(profile_data, wl_data, loads, opens) ==
    /\ saver.pc = "idle"
    /\ LET r == load_cache(disk, loads)
       IN  IF r.raised
           THEN /\ saver' = [saver EXCEPT !.pc = "raised"]
                /\ UNCHANGED <<disk, loaded>>
           ELSE SaveOpen(MergePlayer(r.val, profile_data, wl_data),
                         [kind |-> "player", prev |-> r.val,
                          profile |-> profile_data, wl |-> wl_data], opens)
    /\ UNCHANGED exceptStore

\* the file at the start: none, a saved record, or a file with a bad byte
StoredRecords == {r \in Records : Len(r.v) <= 1} \cup
                 {Obj(<<<<"profile", Num(1)>>, <<"rank_tier", Num(1)>>,
                        <<"win_loss", Str("é")>>>>)}

StoreIdle ==
    /\ disk = NoCacheFile
    /\ saver = SaverIdle
    /\ loaded = NotLoaded

StoreInit ==
    /\ disk \in {NoCacheFile, FileOf(<<"{", BadByte, "}">>)}
                \cup {FileOf(Dump(r)) : r \in StoredRecords}
    /\ saver = SaverIdle
    /\ loaded = NotLoaded

StoreNext ==
    \/ \E opens \in BOOLEAN : LoadCache(opens)
    \/ \E data \in Records : \E opens \in BOOLEAN : SaveCache(data, opens)
    \/ \E fails \in BOOLEAN : SaveWrite(fails)
    \/ SaveClose
    \/ SaveCrash
    \/ \E profile_data \in ProfileResults : \E wl_data \in WinLossResults :
         \E loads, opens \in BOOLEAN :
           CachePlayerData(profile_data, wl_data, loads, opens)

(***************************************************************************)
(* commands.py: get_last_match_data and the match-detail files of          *)
(* cache/matches; beban_tracker.py: load_all_matches, which reads them.    *)
(***************************************************************************)
\* the match ids found in the file names of cache/steam
MatchIds == {1, 2}

\* the revisions of a match body the API may serve
Revisions == {1, 2}

\* the body of /matches/{match_id}
MatchDetail(m, rev) == Obj(<<<<"match_id", Num(m)>>, <<"version", Num(rev)>>>>)

MatchResponses(m) ==
    [kind : {"200"}, body : {MatchDetail(m, rev) : rev \in Revisions}]
    \cup [kind : {"status", "neterr"}, body : {Null}]

\* the state of a match file as a reader finds it
FileState(file) ==
    IF ~file.exists THEN "absent"
    ELSE IF json_load(file.text).err = "none" THEN "valid" ELSE "corrupt"

NoAnswer == [m |-> 0, had |-> "absent", requested |-> FALSE, kind |-> "none",
             from |-> "-", data |-> Null]

CachedDetailExists_Never(file) == FALSE

\* line 95: match_data_file.exists()
CachedDetailExists(file) == file.exists

\* lines 97-99: answer from the file; a file that does not parse raises,
\* and line 116 turns the exception into an error message
AnswerFromFile(m, file) ==
    LET r == json_load(file.text)
    IN  [m |-> m, had |-> FileState(file), requested |-> FALSE,
         kind |-> IF r.err = "none" THEN "stats" ELSE "load_error",
         from |-> "cache", data |-> r.val]

\* lines 102-114: answer from the API; written is the number of chunks of
\* the dump that reach the file before the write fails, if it does
AnswerFromApi(m, file, resp, written) ==
    [m |-> m, had |-> FileState(file), requested |-> TRUE,
     kind |-> CASE resp.kind = "status" -> "http_error"
                [] resp.kind = "neterr" -> "load_error"
                [] OTHER -> IF written = Len(Dump(resp.body)) THEN "stats"
                            ELSE "load_error",
     from |-> "api", data |-> resp.body]

\* lines 75-117, for the latest match id m
GetLastMatchData(m, resp, written) ==
    /\ lookups < MaxLookups
    /\ lookups' = lookups + 1
    /\ IF CachedDetailExists(match_files[m])
       THEN /\ answer' = AnswerFromFile(m, match_files[m])
            /\ UNCHANGED <<match_files, detail_requests, fetched>>
       ELSE /\ answer' = AnswerFromApi(m, match_files[m], resp, written)
            /\ detail_requests' = detail_requests + 1
            /\ IF resp.kind = "200"
               THEN /\ match_files' = [match_files EXCEPT ![m] =
                           FileOf(SubSeq(Dump(resp.body), 1, written))]
                    /\ fetched' = IF written = Len(Dump(resp.body))
                                  THEN fetched \cup {m} ELSE fetched
               ELSE /\ written = 0
                    /\ UNCHANGED <<match_files, fetched>>
    /\ UNCHANGED beban
    /\ UNCHANGED exceptMatch

\* beban_tracker.py lines 28-35: json.load of every file, no handler
LoadAllMatches ==
    /\ beban' = IF \E m \in MatchIds : FileState(match_files[m]) = "corrupt"
                THEN "raised" ELSE "loaded"
    /\ beban' # beban
    /\ UNCHANGED <<match_files, lookups, detail_requests, answer, fetched>>
    /\ UNCHANGED exceptMatch

MatchInit ==
    /\ match_files = [m \in MatchIds |-> NoCacheFile]
    /\ lookups = 0
    /\ detail_requests = 0
    /\ answer = NoAnswer
    /\ fetched = {}
    /\ beban = "idle"

MatchNext ==
    \/ \E m \in MatchIds : \E resp \in MatchResponses(m) :
         \E written \in 0 .. Len(Dump(resp.body)) :
           GetLastMatchData(m, resp, written)
    \/ LoadAllMatches

(***************************************************************************)
(* cache_manager.py: one update_cache cycle, seen from the gather: the     *)
(* tasks it starts, how each of them ends, and the session they share.     *)
(***************************************************************************)
\* cache_heroes, cache_items, cache_patches
StaticCaches == {"heroes", "items", "patches"}

\* lines 144-147: the coroutines handed to asyncio.gather
CycleTasks == StaticCaches \cup Players

\* how a task can end while the session is open: its data fetched and saved,
\* fetch_data returned None, or an exception left the coroutine
TaskOutcomes == {"saved", "no_data", "raised"}

\* how a task can end once the session is closed under it: session.get
\* raises RuntimeError, or its last attempt fails and fetch_data returns None
OutcomeOnClosedSession(outcome) ==
    IF outcome = "saved" THEN "aborted" ELSE outcome

CycleIdle == [pc |-> "idle", session_open |-> FALSE]

\* lines 144-147: the coroutines of this gather; line 147 iterates the
\* module-level tracked_players
Gathered == StaticCaches \cup tracked_players

\* lines 136-148: the session is opened and gather starts every coroutine
CycleStart ==
    /\ update.pc = "idle"
    /\ update' = [pc |-> "gathering", session_open |-> TRUE]
    /\ tasks' = [e \in CycleTasks |->
                   IF e \in Gathered THEN "running" ELSE "pending"]
    /\ UNCHANGED exceptCycle

\* a coroutine of the gather ends
TaskEnd(e, outcome) ==
    /\ tasks[e] = "running"
    /\ tasks' = [tasks EXCEPT ![e] =
                   IF update.session_open THEN outcome
                   ELSE OutcomeOnClosedSession(outcome)]
    /\ UNCHANGED update
    /\ UNCHANGED exceptCycle

\* line 143: gather is called without return_exceptions, so the first
\* exception of a coroutine is raised in update_cache; the `async with` of
\* line 138 closes the session on the way out, the other tasks keep running
GatherRaise ==
    /\ update.pc = "gathering"
    /\ \E e \in CycleTasks : tasks[e] = "raised"
    /\ update' = [pc |-> "raised", session_open |-> FALSE]
    /\ UNCHANGED tasks
    /\ UNCHANGED exceptCycle

\* lines 143-150: every coroutine returned
GatherReturn ==
    /\ update.pc = "gathering"
    /\ \A e \in Gathered : tasks[e] \in {"saved", "no_data"}
    /\ update' = [pc |-> "completed", session_open |-> FALSE]
    /\ UNCHANGED tasks
    /\ UNCHANGED exceptCycle

CycleInit ==
    /\ update = CycleIdle
    /\ tasks = [e \in CycleTasks |-> "pending"]

CycleNext ==
    \/ CycleStart
    \/ \E e \in CycleTasks : \E outcome \in TaskOutcomes : TaskEnd(e, outcome)
    \/ GatherRaise
    \/ GatherReturn

(***************************************************************************)
(* utils.py: the commands that edit steam_user of config.json, and         *)
(* cache_manager.py lines 25-27, which read it when the module is imported.*)
(***************************************************************************)
\* the nicknames the commands give
Nicknames == {"n1", "n2"}

\* steam_user has no entry for the player
Untracked == "-"

\* the players a steam_user map has an entry for
TrackedIn(m) == {p \in Players : m[p] # Untracked}

\* config.json is rewritten with this steam_user
WriteSteamUser(m) ==
    /\ nicknames' = m
    /\ config_players' = TrackedIn(m)

\* utils.py lines 80-98: the player is written to config.json; a player
\* already there raises ValueError before anything is written
AddTrackedPlayer(p, nickname) ==
    /\ p \notin config_players
    /\ WriteSteamUser([nicknames EXCEPT ![p] = nickname])
    /\ told' = [told EXCEPT ![p] = nickname]
    /\ UNCHANGED <<tracked_players, tracked_players_64>>
    /\ UNCHANGED exceptConfig

\* utils.py lines 101-119
RemoveTrackedPlayer(p) ==
    /\ p \in config_players
    /\ WriteSteamUser([nicknames EXCEPT ![p] = Untracked])
    /\ told' = [told EXCEPT ![p] = Untracked]
    /\ UNCHANGED <<tracked_players, tracked_players_64>>
    /\ UNCHANGED exceptConfig

\* commands.py lines 41-54: config_data.update(new_data) replaces the
\* steam_user read from the file by the one handed in
update_config(steam_user) == WriteSteamUser(steam_user)

\* commands.py lines 210-241: /rename of a player the module-level
\* tracked_players_64 holds; another player gets the error reply of line 221
RenamePlayer(p, new_nickname) ==
    /\ tracked_players_64[p] # Untracked
    /\ tracked_players_64' = [tracked_players_64 EXCEPT ![p] = new_nickname]
    /\ update_config(tracked_players_64')
    /\ told' = [told EXCEPT ![p] = new_nickname]
    /\ UNCHANGED tracked_players
    /\ UNCHANGED exceptConfig

\* the process is restarted: cache_manager.py lines 25-27 and commands.py
\* lines 21-22 read config.json again
Import ==
    /\ tracked_players' = config_players
    /\ tracked_players_64' = nicknames
    /\ UNCHANGED <<config_players, nicknames, told>>
    /\ UNCHANGED exceptConfig

\* cache_manager.py lines 25-27 and commands.py lines 21-22 at import:
\* tracked_players and tracked_players_64 are the steam_user of config.json
ConfigInit ==
    /\ nicknames = [p \in Players |-> "n1"]
    /\ config_players = TrackedIn(nicknames)
    /\ tracked_players = config_players
    /\ tracked_players_64 = nicknames
    /\ told = nicknames

ConfigNext ==
    \/ \E p \in Players : \E nickname \in Nicknames : AddTrackedPlayer(p, nickname)
    \/ \E p \in Players : RemoveTrackedPlayer(p)
    \/ CycleStart
    \/ \E e \in CycleTasks : \E outcome \in TaskOutcomes : TaskEnd(e, outcome)
    \/ GatherRaise
    \/ GatherReturn

\* the /track, /untrack and /rename commands of the bot
CommandsNext ==
    \/ \E p \in Players : \E nickname \in Nicknames : AddTrackedPlayer(p, nickname)
    \/ \E p \in Players : RemoveTrackedPlayer(p)
    \/ \E p \in Players : \E nickname \in Nicknames : RenamePlayer(p, nickname)
    \/ Import

(***************************************************************************)
(* match_tracker.py: the track_matches_periodically task of every player.  *)
(***************************************************************************)
\* how the GET of fetch_match_data can end
HistoryOutcomes == {"200", "status", "neterr"}

\* the entries of result.matches: with a match_id, or without one
HistoryEntries ==
    {[has_id |-> TRUE, match_id |-> m] : m \in MatchIds}
    \cup {[has_id |-> FALSE, match_id |-> 0]}

\* match_tracker.py line 37: str(match.get("match_id")); get returns None
\* for an entry without the key
MatchIdOf(match) ==
    IF match.has_id THEN ToString(match.match_id) ELSE "None"

\* line 38: `if not match_id: continue`
Skipped(match) == MatchIdOf(match) = ""

\* line 41: the names <match_id>.json can take
FileNames == {MatchIdOf(match) : match \in HistoryEntries}

LoopStart == [pc |-> "fetching", last |-> "none", cycles |-> 0,
              pending |-> <<>>]

\* match_tracker.py line 42: os.path.exists(file_path) is false
FileMissing(name, ls) == steam_files[name].writes = 0

\* lines 36-43: the entry is one save_match_data goes on to write
ToWrite(match, ls) == ~Skipped(match) /\ FileMissing(MatchIdOf(match), ls)

\* lines 17-29, called at line 57.  Status 200: save_match_data runs up to
\* its await (lines 36-50), match being the entry of the history whose file
\* may be missing; another status: logged, None returned; a transport
\* error: session.get raises and nothing in fetch_match_data or
\* track_matches_periodically catches it
FetchMatchData(p, outcome, match) ==
    /\ loops[p].pc = "fetching"
    /\ loops[p].cycles < MaxCycles
    /\ loops' = [loops EXCEPT ![p] =
                   [pc |-> IF outcome = "neterr" THEN "dead"
                           ELSE IF outcome = "200" /\ ToWrite(match, loops)
                           THEN "to_thread" ELSE "sleeping",
                    last |-> outcome, cycles |-> loops[p].cycles + 1,
                    pending |-> IF outcome = "200" /\ ToWrite(match, loops)
                                THEN <<match>> ELSE <<>>]]
    /\ UNCHANGED steam_files
    /\ UNCHANGED exceptLoops

\* lines 46-51: the thread of asyncio.to_thread has written the file
WriteToFile(p) ==
    /\ loops[p].pc = "to_thread"
    /\ steam_files' = [steam_files EXCEPT ![MatchIdOf(loops[p].pending[1])] =
                          [writes |-> @.writes + 1, content |-> loops[p].pending]]
    /\ loops' = [loops EXCEPT ![p].pc = "sleeping", ![p].pending = <<>>]
    /\ UNCHANGED exceptLoops

\* line 58: asyncio.sleep(interval) is over
IntervalElapsed(p) ==
    /\ loops[p].pc = "sleeping"
    /\ loops' = [loops EXCEPT ![p].pc = "fetching"]
    /\ UNCHANGED steam_files
    /\ UNCHANGED exceptLoops

\* main.py lines 38-39: one task per tracked player
LoopsInit ==
    /\ loops = [p \in Players |-> LoopStart]
    /\ steam_files = [name \in FileNames |-> [writes |-> 0, content |-> <<>>]]

LoopsNext ==
    \/ \E p \in Players : \E outcome \in HistoryOutcomes :
         \E match \in HistoryEntries : FetchMatchData(p, outcome, match)
    \/ \E p \in Players : WriteToFile(p)
    \/ \E p \in Players : IntervalElapsed(p)

(***************************************************************************)
(* cache_manager.py: cache_player_data of one player, run by two           *)
(* update_cache cycles that overlap.  load_cache and save_cache are        *)
(* synchronous; the coroutine is suspended in its two fetches.             *)
(***************************************************************************)
OverlapCycles == {1, 2}

NotStarted == [pc |-> "pending", player_data |-> Null, profile |-> Null,
               wl |-> Null]

\* line 118, up to the await of line 123
OverlapLoad(c) ==
    /\ overlap[c].pc = "pending"
    /\ overlap' = [overlap EXCEPT ![c] =
                     [NotStarted EXCEPT !.pc = "fetching",
                                        !.player_data = load_cache(disk, TRUE).val]]
    /\ UNCHANGED <<disk, saver, loaded>>
    /\ UNCHANGED exceptStoreOverlap

\* lines 123-131: the two fetches returned; merge into what line 118
\* loaded, save
OverlapSave(c, profile_data, wl_data) ==
    /\ overlap[c].pc = "fetching"
    /\ disk' = FileOf(Dump(MergePlayer(overlap[c].player_data, profile_data,
                                       wl_data)))
    /\ overlap' = [overlap EXCEPT ![c] =
                     [@ EXCEPT !.pc = "saved", !.profile = profile_data,
                               !.wl = wl_data]]
    /\ UNCHANGED <<saver, loaded>>
    /\ UNCHANGED exceptStoreOverlap

OverlapIdle == overlap = [c \in OverlapCycles |-> NotStarted]

\* the record of the player before the two cycles
OverlapInit ==
    /\ disk \in {NoCacheFile} \cup {FileOf(Dump(r)) : r \in StoredRecords}
    /\ saver = SaverIdle
    /\ loaded = NotLoaded
    /\ OverlapIdle

OverlapNext ==
    \/ \E c \in OverlapCycles : OverlapLoad(c)
    \/ \E c \in OverlapCycles : \E profile_data \in ProfileResults :
         \E wl_data \in WinLossResults : OverlapSave(c, profile_data, wl_data)

(***************************************************************************)
(* cache_manager.py: the rate_limit_check tasks of several update_cache    *)
(* invocations.  They share request_queue, requests_sent and               *)
(* last_request_time.                                                      *)
(***************************************************************************)
\* an admission happens now
Admit(g) == [since |-> 0, closest |-> Min(g.closest, g.since)]

\* r: what LimiterFromTop or LimiterFromGet made of the task number i
LimitersApply(i, r) ==
    /\ limiters' = IF i > Len(limiters) THEN Append(limiters, r.lim)
                   ELSE [limiters EXCEPT ![i] = r.lim]
    /\ requests_sent' = r.sent
    /\ since_last_request' = r.since
    /\ gap' = IF r.lim.pc = "pace" THEN Admit(gap) ELSE gap

\* lines 138-148: asyncio.create_task(rate_limit_check()) starts one more
\* task, which runs up to its first suspension; then every coroutine of the
\* gather puts the token of its first fetch (line 75)
InvokeUpdateCache ==
    /\ Len(limiters) < MaxUpdates
    /\ LET r == LimiterFromTop(request_queue, requests_sent,
                               since_last_request, admitted)
       IN  /\ LimitersApply(Len(limiters) + 1, r)
           /\ request_queue' = r.q \o [c \in 1 .. Cardinality(CycleTasks) |-> c]
    /\ UNCHANGED <<calls, fetch, limiter, admitted, window>>
    /\ UNCHANGED exceptFetchLimiters

\* a sleep of the task number i is over
LimitersWake(i) ==
    /\ limiters[i].pc \in {"pace", "limit_sleep"}
    /\ limiters[i].timer = 0
    /\ LET r == IF limiters[i].pc = "pace"
                THEN LimiterFromTop(request_queue, requests_sent,
                                    since_last_request, admitted)
                ELSE LimiterFromGet(request_queue, requests_sent,
                                    since_last_request, admitted)
       IN  /\ LimitersApply(i, r)
           /\ request_queue' = r.q
    /\ UNCHANGED <<calls, fetch, limiter, admitted, window>>
    /\ UNCHANGED exceptFetchLimiters

\* request_queue.get() of the task number i returns
LimitersGet(i) ==
    /\ limiters[i].pc = "wait_get"
    /\ request_queue # <<>>
    /\ LET r == LimiterFromGet(request_queue, requests_sent,
                               since_last_request, admitted)
       IN  /\ LimitersApply(i, r)
           /\ request_queue' = r.q
    /\ UNCHANGED <<calls, fetch, limiter, admitted, window>>
    /\ UNCHANGED exceptFetchLimiters

\* a second passes: no task can run
LimitersTick ==
    /\ limiters # <<>>
    /\ \A i \in 1 .. Len(limiters) :
         /\ limiters[i].pc \in {"pace", "limit_sleep"} => limiters[i].timer > 0
         /\ ~(limiters[i].pc = "wait_get" /\ request_queue # <<>>)
    /\ limiters' = [i \in 1 .. Len(limiters) |->
                      IF limiters[i].pc \in {"pace", "limit_sleep"}
                      THEN [limiters[i] EXCEPT !.timer = @ - 1]
                      ELSE limiters[i]]
    /\ since_last_request' = Min(since_last_request + 1, WINDOW + 1)
    /\ gap' = [gap EXCEPT !.since = Min(gap.since + 1, PACE)]
    /\ UNCHANGED <<calls, fetch, limiter, admitted, window, request_queue,
                   requests_sent>>
    /\ UNCHANGED exceptFetchLimiters

\* no update_cache yet; the last admission, if any, was long ago
LimitersInit ==
    /\ limiters = <<>>
    /\ gap = [since |-> PACE, closest |-> PACE]

LimitersNext ==
    \/ InvokeUpdateCache
    \/ \E i \in 1 .. Len(limiters) : LimitersWake(i)
    \/ \E i \in 1 .. Len(limiters) : LimitersGet(i)
    \/ LimitersTick

(***************************************************************************)
(* track_dota.py: the loop of send_daily_report over one day.  Time is in  *)
(* seconds since midnight.                                                 *)
(***************************************************************************)
DaySeconds == 24 * 3600

\* line 132: now.hour == 8 and now.minute == 0
ReportDue(t) == t \div 3600 = REPORT_HOUR /\ (t \div 60) % 60 = 0

\* lines 131-179: one iteration; work: the seconds it takes on top of the
\* sleep of line 179
ReportIteration(work) ==
    /\ schedule.time < DaySeconds
    /\ schedule' = [time |-> schedule.time + work + POLL_SECONDS,
                    runs |-> schedule.runs
                             + (IF ReportDue(schedule.time) THEN 1 ELSE 0)]
    /\ UNCHANGED exceptSchedule

ScheduleIdle == schedule = [time |-> 0, runs |-> 0]

\* the first iteration of the day, at any second of the first minute
ScheduleInit ==
    schedule \in {[time |-> t, runs |-> 0] : t \in 0 .. POLL_SECONDS - 1}

ScheduleNext == \E work \in 0 .. MaxWork : ReportIteration(work)

(***************************************************************************)
(* Specifications.                                                         *)
(***************************************************************************)
\* the layers that are at rest while another one is explored
RestOfInit ==
    /\ MatchInit /\ CycleInit /\ LoopsInit /\ NotifyInit /\ ConfigInit
    /\ LimitersInit /\ SummaryInit

RestInit == RestOfInit /\ ScheduleIdle

\* the fetch layer: one update_cache run
Init ==
    /\ FetchInit /\ TrackInit /\ StoreIdle /\ OverlapIdle /\ ReportIdle
    /\ ScenarioIdle /\ RestInit

Next == FetchNext

Spec == Init /\ [][Next]_vars

\* the burst of RATE_LIMIT + 1 simultaneous fetches
InitBurst ==
    /\ BurstInit /\ TrackInit /\ StoreIdle /\ OverlapIdle /\ ReportIdle
    /\ ScenarioIdle /\ RestInit

SpecBurst == InitBurst /\ [][BurstNext]_vars

\* the session tracker
FetchIdleInit == FetchInit /\ since_last_request = 0

InitTrack ==
    /\ FetchIdleInit /\ TrackInit /\ StoreIdle /\ OverlapIdle /\ ReportIdle
    /\ ScenarioIdle /\ RestInit

SpecTrack == InitTrack /\ [][TrackNext]_vars

\* the cache files
InitStore ==
    /\ FetchIdleInit /\ TrackInit /\ StoreInit /\ OverlapIdle /\ ReportIdle
    /\ ScenarioIdle /\ RestInit

SpecStore == InitStore /\ [][StoreNext]_vars

\* the match-detail files
InitMatch == InitTrack

SpecMatch == InitMatch /\ [][MatchNext]_vars

\* one update_cache cycle
InitCycle == InitTrack

SpecCycle == InitCycle /\ [][CycleNext]_vars

\* the match-history loops
InitLoops == InitTrack

SpecLoops == InitLoops /\ [][LoopsNext]_vars

\* the scripted polls
InitScenario ==
    /\ FetchIdleInit /\ TrackInit /\ StoreIdle /\ OverlapIdle /\ ReportIdle
    /\ ScenarioInit /\ RestInit

SpecScenario == InitScenario /\ [][ScenarioNext]_vars

\* the daily report over the files it can find
InitReport ==
    /\ FetchIdleInit /\ StoreIdle /\ OverlapIdle /\ ScenarioIdle /\ RestInit
    /\ clock = 1
    /\ active_players = [p \in Players |-> NotPlaying]
    /\ tracker = "running"
    /\ seen = [p \in Players |-> Unseen]
    /\ observed = {}
    /\ restarts = 0
    /\ ReportInit

SpecReport == InitReport /\ [][ReportNext]_vars

\* the tracker over playtime files that may not parse
InitCorrupt ==
    /\ FetchIdleInit /\ TrackInit /\ StoreIdle /\ OverlapIdle
    /\ ScenarioIdle /\ RestInit
    /\ corrupt \in SUBSET Players
    /\ daily = NoReport
    /\ days = 0

CorruptNext ==
    \/ \E report \in [Players -> Reports] : Poll(report)
    \/ Restart
    \/ \E delivered \in BOOLEAN : DailyReport(delivered)

SpecCorrupt == InitCorrupt /\ [][CorruptNext]_vars

\* the game notifications
SpecNotify == InitTrack /\ [][NotifyNext]_vars

\* the tracked players and the cycle
SpecConfig == InitTrack /\ [][ConfigNext]_vars

\* cache_player_data of two overlapping cycles
InitOverlap ==
    /\ FetchIdleInit /\ TrackInit /\ OverlapInit /\ ReportIdle
    /\ ScenarioIdle /\ RestInit

SpecOverlap == InitOverlap /\ [][OverlapNext]_vars

\* the rate_limit_check tasks of several update_cache invocations
SpecLimiters == Init /\ [][LimitersNext]_vars

\* the tracker with its fetch_player_summaries; the event loop runs what
\* can run, and every GET ends (timeout=10, line 58)
SpecSummaries ==
    InitTrack /\ [][SummariesNext]_vars /\ WF_vars(SummariesNext)

\* the commands that edit the tracked players
SpecCommands == InitTrack /\ [][CommandsNext]_vars

\* the tracker and the daily report over more than the retention window
SpecDays == InitTrack /\ [][DaysNext]_vars

\* the loop of send_daily_report over one day
InitSchedule ==
    /\ FetchIdleInit /\ TrackInit /\ StoreIdle /\ OverlapIdle /\ ReportIdle
    /\ ScenarioIdle /\ RestOfInit /\ ScheduleInit

SpecSchedule == InitSchedule /\ [][ScheduleNext]_vars

(***************************************************************************)
(* The claims.                                                             *)
(***************************************************************************)
\* C1 (as claimed): at most RATE_LIMIT GETs are issued in any 60-second
\* window, here the window that opens at the first GET of update_cache.
C1_AtMostRateLimitGetsPerWindow == window.count <= RATE_LIMIT

\* C2 (as claimed): a call has issued a GET only if rate_limit_check has
\* taken the token that call put on request_queue.
C2_NoGetBeforeAdmission ==
    \A c \in calls : fetch[c].gets > 0 => c \in admitted

OpenSessions(file) ==
    {i \in 1 .. Len(file.sessions) : ~file.sessions[i].closed}

\* C3 (as claimed): the session list on disk of every player holds at most
\* one open session.
C3_AtMostOneOpenSession ==
    \A p \in Players : Cardinality(OpenSessions(playtime[p])) <= 1

\* C4 (as claimed): the first poll ever observed for a player, when it
\* reports Dota 2, leaves the record of the player as it was.
C4_FirstPollOpensNoSession ==
    [][\A p \in Players :
          (p \notin observed /\ p \in observed' /\ seen'[p].game = "Dota 2")
              => playtime'[p] = playtime[p]]_vars

\* Dota 2, or not Dota 2
Playing(game) == game = "Dota 2"

\* this step is a poll that reports for p the state the previous poll of
\* this run of track_dota_playtime reported
SameStatePoll(p) ==
    /\ clock' = clock + 1
    /\ seen'[p].at = clock
    /\ seen[p].game # "unseen"
    /\ Playing(seen'[p].game) = Playing(seen[p].game)

\* C5: a poll that reports for a player the state the previous poll
\* reported changes neither the record on disk nor the active_players entry
\* of that player.
C5_SameStatePollIsNoOp ==
    [][\A p \in Players :
          SameStatePoll(p) => /\ playtime'[p] = playtime[p]
                              /\ active_players'[p] = active_players[p]]_vars

\* C5 witness: one player was reported in Dota 2 again after the poll that
\* opened the session, and still has that one session; another player was
\* reported out of Dota 2 again after the poll that closed the session.
C5_Witness ==
    \E p, q \in Players :
        /\ active_players[p].on
        /\ seen[p].game = "Dota 2"
        /\ seen[p].at > active_players[p].start
        /\ Len(playtime[p].sessions) = 1
        /\ ~active_players[q].on
        /\ seen[q].game # "Dota 2"
        /\ Len(playtime[q].sessions) = 1
        /\ playtime[q].sessions[1].closed
        /\ seen[q].at > playtime[q].sessions[1].end

Returned(f) == f.pc \in {"done", "raised"}

\* the place of a call in its run: the loop rounds in order, each a GET, the
\* sleep of a 429 and the backoff sleep
Phase(f) ==
    CASE f.pc = "idle" -> 0
      [] f.pc = "get" -> 3 * f.attempt + 1
      [] f.pc = "sleep429" -> 3 * f.attempt + 2
      [] f.pc = "backoff" -> 3 * f.attempt + 3
      [] OTHER -> 3 * DEFAULT_RETRIES + 1

Advances(f, g) ==
    \/ Phase(g) > Phase(f)
    \/ Phase(g) = Phase(f) /\ g.timer < f.timer

\* C6: a call never issues more than DEFAULT_RETRIES GETs; every step of a
\* call moves it forward through its rounds or shortens its sleep, so it ends
\* after finitely many steps; a 200 response ends it with the payload of that
\* response, and a call that has ended issues nothing more.
C6_BoundedAttempts ==
    [][\A c \in calls :
          /\ fetch'[c].gets <= DEFAULT_RETRIES
          /\ fetch'[c] # fetch[c] => Advances(fetch[c], fetch'[c])
          /\ Returned(fetch[c]) => fetch'[c] = fetch[c]
          /\ (fetch[c].pc = "get" /\ fetch'[c].resp.kind = "200")
                => /\ fetch'[c].pc = "done"
                   /\ fetch'[c].ret = fetch'[c].resp.val
                   /\ fetch'[c].gets = fetch[c].gets]_vars

\* C6 witness: a call ended with the payload of its third GET
C6_Witness ==
    \E c \in calls :
        /\ fetch[c].pc = "done"
        /\ fetch[c].gets = DEFAULT_RETRIES
        /\ fetch[c].ret \in Payloads

\* C7 (as claimed): no fetch_data call is left by an exception.
C7_NeverRaises == \A c \in calls : fetch[c].pc # "raised"

\* a retry GET is in flight: resp is the response before it, since the
\* seconds slept in between
Retrying(f) == f.pc = "get" /\ f.attempt > 0

\* C8 (as claimed): the GET that follows a 429 is issued exactly Retry-After
\* seconds (10 without the header) after that response.
C8_WaitIsRetryAfter ==
    \A c \in calls :
        (Retrying(fetch[c]) /\ fetch[c].resp.kind = "429")
            => fetch[c].since = RetryAfter(fetch[c].resp.hdr)

\* C9 (as claimed): a 429 uses up none of the attempts, so a call gives up
\* with None only after DEFAULT_RETRIES failed attempts.
C9_ThrottleUsesNoAttempt ==
    \A c \in calls :
        fetch[c].ret = "None" => fetch[c].nfail = DEFAULT_RETRIES

\* C10 (as claimed): the GET that follows the n-th failed attempt is issued
\* min(2^n, 60) seconds after it.
C10_BackoffIsPowerOfTwo ==
    \A c \in calls :
        (Retrying(fetch[c]) /\ fetch[c].resp.kind \in {"status", "neterr"})
            => fetch[c].since = Min(Pow(BACKOFF_BASE, fetch[c].nfail), 60)

\* C11: load_cache returns the stored record when the file holds valid JSON,
\* and an empty record, without raising, when the file is missing, cannot be
\* opened or does not parse.
C11_LoadCacheNeverRaises ==
    loaded.set =>
        /\ ~loaded.raised
        /\ (disk.exists /\ loaded.opened /\ json_load(disk.text).err = "none"
              => loaded.val = json_load(disk.text).val)
        /\ (~disk.exists \/ ~loaded.opened \/ json_load(disk.text).err # "none"
              => loaded.val = Obj(<<>>))

\* C12: a crash during the save of an existing file leaves the file with
\* the complete old content or the complete new content.
C12_CrashLeavesOldOrNew ==
    (saver.pc = "crashed" /\ saver.old.exists) =>
        disk = saver.old \/ disk = FileOf(Dump(saver.data))

\* C13: a save_cache whose write failed with OSError returns normally and
\* the file still holds the previous record.
C13_FailedWriteKeepsStale ==
    (saver.pc = "returned" /\ saver.failed /\ saver.old.exists) =>
        disk = saver.old

\* C14: save_cache(key, r) followed by load_cache(key) returns a value
\* equal to r.
C14_SaveLoadRoundTrip ==
    (saver.pc = "returned" /\ ~saver.failed /\ loaded.set /\ loaded.opened) =>
        ~loaded.raised /\ loaded.val = saver.data

C14_Witness ==
    /\ saver.pc = "returned" /\ ~saver.failed /\ saver.src.kind = "plain"
    /\ loaded.set /\ loaded.opened
    /\ Len(saver.data.v) = MaxFields
    /\ \E k \in Keys : Get(loaded.val, k) =
                           [has |-> TRUE, val |-> List(<<Null, WinLoss>>)]

\* the record in the file once cache_player_data has saved it
SavedPlayer == load_cache(disk, TRUE).val

PlayerSaved ==
    saver.pc = "returned" /\ ~saver.failed /\ saver.src.kind = "player"

\* the fields the two fetches of this cache_player_data brought
Fetched ==
    (IF Truthy(saver.src.profile) THEN KeysOf(saver.src.profile) ELSE {})
    \cup (IF Truthy(saver.src.wl) THEN {"win_loss"} ELSE {})

\* C15: after cache_player_data, a key that was not fetched keeps its old
\* value, a fetched profile field has the fetched value, and win_loss is the
\* fetched win/loss body when that fetch succeeded and the old value otherwise.
C15_MergeKeepsUntouchedFields ==
    PlayerSaved =>
        /\ \A k \in Keys \ Fetched :
              Get(SavedPlayer, k) = Get(saver.src.prev, k)
        /\ \A k \in Fetched \ {"win_loss"} :
              Get(SavedPlayer, k) = Get(saver.src.profile, k)
        /\ Get(SavedPlayer, "win_loss") =
              IF Truthy(saver.src.wl)
              THEN [has |-> TRUE, val |-> saver.src.wl]
              ELSE Get(saver.src.prev, "win_loss")
        /\ KeysOf(SavedPlayer) = KeysOf(saver.src.prev) \cup Fetched

C15_Witness ==
    /\ PlayerSaved
    /\ Get(saver.src.prev, "rank_tier").has
    /\ Get(saver.src.prev, "win_loss").has
    /\ Get(saver.src.prev, "profile").has
    /\ ~Truthy(saver.src.wl)
    /\ Truthy(saver.src.profile)
    /\ KeysOf(saver.src.profile) = {"profile"}
    /\ Get(saver.src.profile, "profile") # Get(saver.src.prev, "profile")
    /\ Get(SavedPlayer, "profile") = Get(saver.src.profile, "profile")

\* C16: a match-detail file that exists but does not hold valid JSON is
\* treated as absent: get_last_match_data fetches the match and replaces the
\* file instead of failing on it, and load_all_matches does not raise on it.
C16_CorruptMatchFileIsAbsent ==
    /\ answer.had = "corrupt" => answer.requested /\ answer.kind # "load_error"
    /\ beban # "raised"

\* C17: once get_last_match_data has fetched and saved match m, the file
\* of m exists, and a later call for m issues no match-detail request and
\* answers with the content of the file.
C17_CachedMatchNotRefetched ==
    [][\A m \in fetched :
         /\ match_files[m].exists
         /\ (lookups' = lookups + 1 /\ answer'.m = m) =>
               /\ detail_requests' = detail_requests
               /\ answer'.kind = "stats" /\ answer'.from = "cache"
               /\ answer'.data = json_load(match_files[m].text).val
               /\ match_files' = match_files]_vars

C17_Witness ==
    /\ lookups = MaxLookups /\ detail_requests = 1
    /\ answer.m \in fetched /\ answer.from = "cache" /\ answer.kind = "stats"
    /\ answer.data = MatchDetail(answer.m, 2)

\* C18: within one update_cache cycle a failure while refreshing one player
\* does not abort the refresh of the others: update_cache does not raise
\* and no other task loses its session before it has fetched and saved.
C18_FailureIsIsolated ==
    /\ update.pc # "raised"
    /\ \A e \in CycleTasks : tasks[e] # "aborted"

\* C19: a failed match-history fetch (non-200 status or transport error)
\* never stops the periodic loop of the player.
C19_FailedFetchKeepsLoop ==
    \A p \in Players :
        loops[p].last \in {"status", "neterr"} => loops[p].pc # "dead"

\* the poll of this step reports an activity other than Dota 2 for a
\* player who is in active_players
StopPoll(p) ==
    /\ clock' = clock + 1
    /\ active_players[p].on
    /\ seen'[p].at = clock /\ seen'[p].game # "Dota 2"

\* seconds of a duration written as <<hours, minutes, seconds>>
DurationSeconds(d) == d[1] * 3600 + d[2] * 60 + d[3]

C21_TotalIsSumOfDurations ==
    \A p \in Players :
        36 * playtime[p].total
          - ClosedSeconds(Kept(playtime[p].sessions, clock), 1) \in -18 .. 18

\* the sessions on disk of the player of the scenario
ScenarioSessions == playtime[ScenarioPlayer].sessions

ScenarioDone == script # <<>> /\ clock = Len(script) + 1

\* C22 (amended): given the polls [absent, X, X, Y, absent] with X and Y two
\* different activities, the tracker opens no session on the first poll and
\* ends with exactly one session, closed: the one of the run of Dota 2,
\* from the first poll that reported Dota 2 to the first poll after it that
\* did not.  The run of the other activity gets no session.
C22_OneSessionForTheDotaRun ==
    /\ \A i \in 1 .. Len(ScenarioSessions) : ScenarioSessions[i].start # 1
    /\ ScenarioDone =>
         /\ Len(ScenarioSessions) = 1
         /\ ScenarioSessions[1].closed
         /\ ~active_players[ScenarioPlayer].on
         /\ script[2] = "Dota 2" =>
              ScenarioSessions[1].start = 2 /\ ScenarioSessions[1].end = 4
         /\ script[4] = "Dota 2" =>
              ScenarioSessions[1].start = 4 /\ ScenarioSessions[1].end = 5

C22_Witness ==
    /\ ScenarioDone
    /\ script[4] = "Dota 2"
    /\ Len(ScenarioSessions) = 1
    /\ ScenarioSessions[1].closed
    /\ ScenarioSessions[1].end = 5

\* C22 (as claimed): the tracker ends with exactly two closed sessions, one
\* for the X run and one for the Y run.
C22_TwoClosedSessions ==
    ScenarioDone =>
        /\ Len(ScenarioSessions) = 2
        /\ \A i \in 1 .. 2 : ScenarioSessions[i].closed
        /\ ScenarioSessions[1].start = 2 /\ ScenarioSessions[1].end = 4
        /\ ScenarioSessions[2].start = 4 /\ ScenarioSessions[2].end = 5

\* the seconds the report has to show for a player: the sum of end - start
\* over the closed sessions that started within the retention window
WindowSeconds(p) ==
    ClosedSeconds(Kept(load_playtime_data(playtime[p]).sessions, clock), 1)

\* C23 (as claimed): after a run of the daily report, the total reported for
\* every player is the sum of end - start over the closed sessions of the
\* trailing 30 days, a line is emitted for exactly the players whose total
\* is not zero, and the message is sent iff there is such a player.
C23_ReportedTotalIsSum ==
    daily.pc = "done" =>
        /\ \A p \in Players :
             /\ daily.shown[p] = DurationFormatted(WindowSeconds(p))
             /\ p \in daily.lines <=> WindowSeconds(p) > 0
        /\ daily.sent <=> daily.lines # {}

\* C24 (as claimed): after a run of the daily report, no playtime file holds
\* a session that started before the retention window.
C24_PruningIsPersisted ==
    daily.pc = "done" =>
        \A p \in Players : \A i \in 1 .. Len(playtime[p].sessions) :
            playtime[p].sessions[i].start >= Cutoff(clock)

\* C25 (as claimed): a playtime file that does not parse makes neither
\* track_dota_playtime nor send_daily_report raise.
C25_CorruptFileNeverRaises ==
    /\ tracker # "crashed"
    /\ daily.raised # "load"

\* C26 (as claimed): when notifier.send_message raises, check_game_status
\* keeps running.
C26_SendFailureIsSurvived == notify.pc # "crashed"

\* the players whose cache_player_data this step hands to the gather
StartedPlayers == {p \in Players : tasks'[p] = "running"}

\* C27 (as claimed): the cycle that starts refreshes exactly the players that
\* config.json lists at that moment.
C27_CycleReadsConfig ==
    [][(update.pc = "idle" /\ update'.pc = "gathering")
         => StartedPlayers = config_players]_vars

\* C28 (as claimed): the file of a match id is written at most once.
C28_MatchFileWrittenOnce ==
    \A name \in FileNames : steam_files[name].writes <= 1

\* the fields the cache_player_data of cycle c fetched
FetchedBy(c) ==
    (IF Truthy(overlap[c].profile) THEN KeysOf(overlap[c].profile) ELSE {})
    \cup (IF Truthy(overlap[c].wl) THEN {"win_loss"} ELSE {})

\* C29 (as claimed): once the cache_player_data of both cycles have saved,
\* the record on disk has every field either of them loaded and every field
\* either of them fetched.
C29_NoFetchedFieldLost ==
    (\A c \in OverlapCycles : overlap[c].pc = "saved") =>
        \A c \in OverlapCycles :
            KeysOf(overlap[c].player_data) \cup FetchedBy(c)
                \subseteq KeysOf(SavedPlayer)

\* C30 (as claimed): at most one rate_limit_check task exists, and two
\* consecutive admissions are at least one second apart.
C30_SingleAdmissionProcess ==
    /\ Len(limiters) <= 1
    /\ gap.closest >= PACE

\* C31 (as claimed): every call of fetch_player_summaries returns.
C31_SummariesReturn == [](summary.pc = "get" => <>(summary.pc = "returned"))

\* C32 (as claimed): when no file exists and both fetches of
\* cache_player_data fail, no file is left for the player.
C32_NoFileWithoutData ==
    (/\ saver.src.kind = "player"
     /\ ~saver.old.exists
     /\ ~Truthy(saver.src.profile)
     /\ ~Truthy(saver.src.wl)) => ~disk.exists

\* C33 (as claimed): steam_user of config.json holds exactly the players
\* added and not removed since, each with the last nickname given to it.
C33_NoUpdateLost == nicknames = told

\* C34 (as claimed): a player in active_players has a record on disk whose
\* last session is open and starts at the time stored in active_players.
C34_ActiveHasOpenSession ==
    \A p \in Players :
        active_players[p].on =>
            LET q == playtime[p].sessions
            IN  /\ Len(q) > 0
                /\ ~q[Len(q)].closed
                /\ q[Len(q)].start = active_players[p].start

\* the step appends a session that starts now to the record on disk
StartWritten(old, new) ==
    /\ new.exists
    /\ new.sessions = Append(old.sessions, OpenSession(clock))
    /\ new.total = old.total

\* the step closes the last session of the record on disk, now
StopWritten(old, new) ==
    /\ new.exists
    /\ Len(old.sessions) > 0 /\ Len(new.sessions) = Len(old.sessions)
    /\ \A i \in 1 .. Len(old.sessions) - 1 : new.sessions[i] = old.sessions[i]
    /\ ~old.sessions[Len(old.sessions)].closed
    /\ new.sessions[Len(old.sessions)].closed
    /\ new.sessions[Len(old.sessions)].start = old.sessions[Len(old.sessions)].start
    /\ new.sessions[Len(old.sessions)].end = clock

\* the step removes a file none of whose sessions started in the window
OldRemoved(old, new) ==
    /\ ~new.exists
    /\ \A i \in 1 .. Len(old.sessions) : old.sessions[i].start < Cutoff(clock)

ReportMinuteOver == schedule.time >= REPORT_HOUR * 3600 + 60

\* C36 (as claimed): the report body never runs twice in a day, and once
\* the 08:00 minute is over it has run exactly once.
C36_OncePerDay ==
    /\ schedule.runs <= 1
    /\ ReportMinuteOver => schedule.runs = 1

\* C37 (as claimed): every file save_match_data wrote holds an entry that
\* has a match_id, and is named after it.
C37_FileNamedAfterMatchId ==
    \A name \in FileNames :
        steam_files[name].content # <<>> =>
            /\ steam_files[name].content[1].has_id
            /\ ToString(steam_files[name].content[1].match_id) = name
====
